---- MODULE Spec2Model ----
(***************************************************************************)
(* A model of src/runtime/dso_module.cc: DSOModuleNode, the module that    *)
(* loads a dynamic shared library (the artifact), resolves its exported    *)
(* symbols into PackedFunc callables, and attaches the modules embedded in *)
(* the artifact's device blob.  The artifact is an input chosen in Init;   *)
(* the registered factory "module.loadfile_so" runs step by step, and then *)
(* holders (threads) copy and release the Module, look names up, take      *)
(* nested-module references, invoke and release callables.                 *)
(***************************************************************************)
EXTENDS Integers, Sequences, FiniteSets, TLC

\* ------------------------------------------------------------------ bounds
NThreads == 2      \* holders / threads that may use the module concurrently
MaxBlobLen == 3    \* longest device blob enumerated (count word + records)

Threads == 1..NThreads

\* ------------------------------------------------------- names and values
tvm_module_main == "__tvm_main__"
tvm_module_ctx == "__tvm_module_ctx"
tvm_dev_mblob == "__tvm_dev_mblob"

FuncNames == {"f", "g", "h"}             \* ordinary function names requested
LookupNames == FuncNames \cup {tvm_module_main}
TopFuncs == {"f", "g"}                   \* functions a top-level artifact may export

NULL == <<>>                             \* nullptr
LibHandle == <<"handle">>                \* what dlopen returns on success
Addr(name) == <<"lib", name>>            \* address of an exported symbol
NoBlob == <<-1>>                         \* the artifact carries no device blob
NoEntry == ""                            \* no entry-indirection string
This == <<"this">>                       \* the pointer to the node written into the slot

\* Nested module kinds the generic module system can construct from a blob.
KindA == 1
KindB == 2
KnownKinds == {KindA, KindB}
NestedDefs(kind) == IF kind = KindA THEN {"g"} ELSE {"g", "h"}
NestedAddr(kind, name) == <<"nested", name, kind>>

\* ---------------------------------------------------------------- state
VARIABLES
  artifact,    \* the file at the path given to the factory
  fpc,         \* position of the factory lambda
  node,        \* the DSOModuleNode object: lib_handle_, imports_, ref_counter_, state
  nested_ref,  \* reference counts of the nested module objects, by position in imports_
  dl,          \* the platform loader's view: [open, unloads]
  ctx_slot,    \* the context slot inside the library
  resolver,    \* whether the name-resolution callback was registered
  mod,         \* mod[t]: thread t holds a Module reference to the node
  lk,          \* lk[t]: the lookup thread t has in progress
  faddr,       \* faddr[s]: the storage GetFunction keeps its resolved address in
  res,         \* res[t]: the value thread t holds from its last call
  last_call    \* the last callable invocation: outcome, address, whether no Module was held

vars ==
  <<artifact, fpc, node, nested_ref, dl, ctx_slot, resolver, mod, lk, faddr, res, last_call>>

\* --------------------------------------------------------------- artifacts
RECURSIVE SeqsUpTo(_, _)
SeqsUpTo(S, n) ==
  IF n = 0 THEN {<<>>}
  ELSE LET shorter == SeqsUpTo(S, n - 1)
       IN shorter \cup {Append(s, x) : s \in {q \in shorter : Len(q) = n - 1}, x \in S}

\* A blob word is a count or a kind; 0 is no known kind.
BlobWords == {0} \cup KnownKinds

Blobs == SeqsUpTo(BlobWords, MaxBlobLen)

\* An artifact that cannot be opened has no observable content.
Unopenable ==
  [openable |-> FALSE, exports |-> {}, entry |-> NoEntry, blob |-> NoBlob]

OpenableArtifacts ==
  { [openable |-> TRUE,
     exports |-> fs \cup (IF e = NoEntry THEN {} ELSE {tvm_module_main})
                    \cup (IF c THEN {tvm_module_ctx} ELSE {})
                    \cup (IF b = NoBlob THEN {} ELSE {tvm_dev_mblob}),
     entry |-> e,
     blob |-> b] :
    fs \in SUBSET TopFuncs, e \in {NoEntry, "f", "g"}, c \in BOOLEAN,
    b \in Blobs \cup {NoBlob} }

Artifacts == OpenableArtifacts \cup {Unopenable}

\* The device blob format: a count, then that many records (a kind each).
EncodeBlob(descs) == <<Len(descs)>> \o descs

\* The artifacts the concurrent specification is run on: the one that cannot
\* be opened, and those exporting at most f, with every choice of context
\* slot and entry indirection, and no blob, the blob of [A, B], or a
\* truncated one.
SampleBlobs == {NoBlob, EncodeBlob(<<KindA, KindB>>), <<2, KindA>>}

SampleArtifacts ==
  { a \in Artifacts :
      \/ ~a.openable
      \/ /\ a.exports \cap TopFuncs \subseteq {"f"}
         /\ a.blob \in SampleBlobs }

\* -------------------------------------------------------- platform loader
\* dlsym(lib_handle_, name): the address of an exported symbol, else nullptr.
GetSymbol(name) == IF name \in artifact.exports THEN Addr(name) ELSE NULL

\* The C string stored at an exported data address (the entry indirection).
StringAt(addr) == IF addr = Addr(tvm_module_main) THEN artifact.entry ELSE NoEntry

\* The objects a release can reach: the node, its nested modules, the loader.
World == [node |-> node, nested_ref |-> nested_ref, dl |-> dl]

SetWorld(w) ==
  /\ node' = w.node
  /\ nested_ref' = w.nested_ref
  /\ dl' = w.dl

\* dlclose(lib_handle_): the handle itself is left as it was.
Unload(w) == [w EXCEPT !.dl = [open |-> FALSE, unloads |-> @.unloads + 1]]

\* Mutant: the destructor unloads without asking whether Load succeeded.
DestructorUnguarded(w) ==
  LET u == Unload(w)
  IN [u EXCEPT !.node.state = "destroyed",
               !.nested_ref = [i \in DOMAIN @ |-> @[i] - 1]]

\* ~DSOModuleNode, then the base class's members: imports_ drops its references.
Destructor(w) ==
  LET u == IF w.node.lib_handle_ # NULL THEN Unload(w) ELSE w
  IN [u EXCEPT !.node.state = "destroyed",
               !.nested_ref = [i \in DOMAIN @ |-> @[i] - 1]]

\* ObjectPtr release: the object is destroyed when the last reference goes.
DecRef(w) ==
  LET d == [w EXCEPT !.node.ref_counter_ = @ - 1]
  IN IF d.node.ref_counter_ = 0 THEN Destructor(d) ELSE d

IncRef(w) == [w EXCEPT !.node.ref_counter_ = @ + 1]

NestedIncRef(w, i) == [w EXCEPT !.nested_ref[i] = @ + 1]
NestedDecRef(w, i) == [w EXCEPT !.nested_ref[i] = @ - 1]

\* ------------------------------------------------------- nested imports
\* ImportModuleBlob: read the count, then construct and append one module per
\* record, failing fatally on a truncated blob or an unknown kind.  What was
\* appended before the failure stays in the list.
RECURSIVE ReadRecords(_, _, _)
ReadRecords(n, rest, acc) ==
  IF n = 0 THEN [ok |-> TRUE, mods |-> acc]
  ELSE IF rest = <<>> \/ Head(rest) \notin KnownKinds
       THEN [ok |-> FALSE, mods |-> acc]
       ELSE ReadRecords(n - 1, Tail(rest), Append(acc, Head(rest)))

ImportModuleBlob(blob, mlist) ==
  IF blob = <<>> THEN [ok |-> FALSE, mods |-> mlist]
  ELSE ReadRecords(blob[1], Tail(blob), mlist)

\* ----------------------------------------------------------------- values
NoLookup == [stage |-> "idle"]
NoCall == [outcome |-> "none", alone |-> FALSE, faddr |-> NULL]

\* Who a callable or a held reference keeps alive.
Self == <<"self">>                       \* the node: sptr_to_self
NoOwner == <<"nullptr">>                 \* nobody
Import(i) == <<"import", i>>             \* the i-th nested module

\* A thread holding nothing.
NoRes == [kind |-> "none", faddr |-> NULL, owner |-> NoOwner, name |-> "", qi |-> FALSE]

InitNode == [lib_handle_ |-> NULL, imports_ |-> <<>>, ref_counter_ |-> 0, state |-> "none"]

InitOn(artifacts) ==
  /\ artifact \in artifacts
  /\ fpc = "start"
  /\ node = InitNode
  /\ nested_ref = <<>>
  /\ dl = [open |-> FALSE, unloads |-> 0]
  /\ ctx_slot = NULL
  /\ resolver = FALSE
  /\ mod = [t \in Threads |-> FALSE]
  /\ lk = [t \in Threads |-> NoLookup]
  /\ faddr = [t \in Threads |-> NULL]
  /\ res = [t \in Threads |-> NoRes]
  /\ last_call = NoCall

\* ---------------------------------------------------------------- factory
\* auto n = make_object<DSOModuleNode>();
MakeObject ==
  /\ fpc = "start"
  /\ fpc' = "made"
  /\ node' = [InitNode EXCEPT !.ref_counter_ = 1, !.state = "live"]
  /\ UNCHANGED <<artifact, nested_ref, dl, ctx_slot, resolver, mod, lk, faddr, res, last_call>>

\* Mutant: Load without its CHECK, so construction goes on with a null handle.
LoadUnchecked ==
  /\ fpc = "made"
  /\ node' = [node EXCEPT !.lib_handle_ = IF artifact.openable THEN LibHandle ELSE NULL]
  /\ dl' = [dl EXCEPT !.open = artifact.openable]
  /\ fpc' = "loaded"
  /\ UNCHANGED <<artifact, nested_ref, ctx_slot, resolver, mod, lk, faddr, res, last_call>>

\* Mutant: the result of dlopen is checked but never stored in lib_handle_.
LoadHandleLost ==
  /\ fpc = "made"
  /\ IF artifact.openable
     THEN /\ dl' = [dl EXCEPT !.open = TRUE]
          /\ fpc' = "loaded"
          /\ UNCHANGED <<node, nested_ref>>
     ELSE /\ SetWorld(DecRef(World))
          /\ fpc' = "failed"
  /\ UNCHANGED <<artifact, ctx_slot, resolver, mod, lk, faddr, res, last_call>>

\* Load(name): dlopen, then CHECK(lib_handle_ != nullptr).  The failed CHECK
\* throws out of the factory, and unwinding releases n.
Load ==
  /\ fpc = "made"
  /\ IF artifact.openable
     THEN /\ node' = [node EXCEPT !.lib_handle_ = LibHandle]
          /\ dl' = [dl EXCEPT !.open = TRUE]
          /\ fpc' = "loaded"
          /\ UNCHANGED nested_ref
     ELSE /\ SetWorld(DecRef([World EXCEPT !.node.lib_handle_ = NULL]))
          /\ fpc' = "failed"
  /\ UNCHANGED <<artifact, ctx_slot, resolver, mod, lk, faddr, res, last_call>>

\* Mutant: the context slot is written without testing its address.
InjectContextUnconditional ==
  /\ fpc = "loaded"
  /\ fpc' = "ctx"
  /\ ctx_slot' = This
  /\ UNCHANGED <<artifact, node, nested_ref, dl, resolver, mod, lk, faddr, res, last_call>>

\* if (auto* ctx_addr = GetSymbol(tvm_module_ctx)) *ctx_addr = this;
InjectContext ==
  /\ fpc = "loaded"
  /\ fpc' = "ctx"
  /\ ctx_slot' = IF GetSymbol(tvm_module_ctx) # NULL THEN This ELSE ctx_slot
  /\ UNCHANGED <<artifact, node, nested_ref, dl, resolver, mod, lk, faddr, res, last_call>>

\* InitContextFunctions([this](const char* fname) { return GetSymbol(fname); });
InitContextFunctions ==
  /\ fpc = "ctx"
  /\ fpc' = "resolver"
  /\ resolver' = TRUE
  /\ UNCHANGED <<artifact, node, nested_ref, dl, ctx_slot, mod, lk, faddr, res, last_call>>

\* The imported modules: imports_ after ImportModuleBlob, fresh objects with
\* one reference each (the one imports_ holds).
WithImports(w, mods) ==
  [w EXCEPT !.node.imports_ = mods,
            !.nested_ref = [i \in 1..Len(mods) |-> 1]]

\* Mutant: the test for the blob is inverted, so a blob that is there is skipped.
LoadImportsInverted ==
  /\ fpc = "resolver"
  /\ fpc' = "imported"
  /\ UNCHANGED <<artifact, node, nested_ref, dl, ctx_slot, resolver, mod, lk, faddr, res, last_call>>

\* Mutant: the imported modules are loaded right after Load, and Init ends
\* there, before the context is injected.
LoadImportsEarly ==
  /\ fpc = "loaded"
  /\ IF GetSymbol(tvm_dev_mblob) # NULL
     THEN LET r == ImportModuleBlob(artifact.blob, node.imports_)
          IN IF r.ok
             THEN /\ SetWorld(WithImports(World, r.mods))
                  /\ fpc' = "imported"
             ELSE /\ SetWorld(DecRef(WithImports(World, r.mods)))
                  /\ fpc' = "failed"
     ELSE /\ fpc' = "imported"
          /\ UNCHANGED <<node, nested_ref, dl>>
  /\ UNCHANGED <<artifact, ctx_slot, resolver, mod, lk, faddr, res, last_call>>

\* Mutant: n is a raw pointer, so the node is not released when
\* ImportModuleBlob throws.
LoadImportsLeaks ==
  /\ fpc = "resolver"
  /\ IF GetSymbol(tvm_dev_mblob) # NULL
     THEN LET r == ImportModuleBlob(artifact.blob, node.imports_)
          IN /\ SetWorld(WithImports(World, r.mods))
             /\ fpc' = IF r.ok THEN "imported" ELSE "failed"
     ELSE /\ fpc' = "imported"
          /\ UNCHANGED <<node, nested_ref, dl>>
  /\ UNCHANGED <<artifact, ctx_slot, resolver, mod, lk, faddr, res, last_call>>

\* Load the imported modules; a fatal error in ImportModuleBlob throws out of
\* the factory, and unwinding releases n.
LoadImports ==
  /\ fpc = "resolver"
  /\ IF GetSymbol(tvm_dev_mblob) # NULL
     THEN LET r == ImportModuleBlob(artifact.blob, node.imports_)
          IN IF r.ok
             THEN /\ SetWorld(WithImports(World, r.mods))
                  /\ fpc' = "imported"
             ELSE /\ SetWorld(DecRef(WithImports(World, r.mods)))
                  /\ fpc' = "failed"
     ELSE /\ fpc' = "imported"
          /\ UNCHANGED <<node, nested_ref, dl>>
  /\ UNCHANGED <<artifact, ctx_slot, resolver, mod, lk, faddr, res, last_call>>

\* Mutant: the factory returns the raw node, so the caller's Module holds no
\* reference once n goes out of scope.
ReturnRaw ==
  /\ fpc = "imported"
  /\ fpc' = "returned"
  /\ SetWorld(DecRef(World))
  /\ mod' = [mod EXCEPT ![1] = TRUE]
  /\ UNCHANGED <<artifact, ctx_slot, resolver, lk, faddr, res, last_call>>

\* *rv = runtime::Module(n); the lambda returns and n's reference passes to
\* the caller (thread 1).
Return ==
  /\ fpc = "imported"
  /\ fpc' = "returned"
  /\ SetWorld(DecRef(IncRef(World)))
  /\ mod' = [mod EXCEPT ![1] = TRUE]
  /\ UNCHANGED <<artifact, ctx_slot, resolver, lk, faddr, res, last_call>>

\* ----------------------------------------------------------------- lookup
\* Mutant: the CHECK on the entry indirection is missing.
GetFunctionFaddrUnchecked(name) ==
  IF name = tvm_module_main
  THEN [fatal |-> FALSE, faddr |-> GetSymbol(StringAt(GetSymbol(tvm_module_main)))]
  ELSE [fatal |-> FALSE, faddr |-> GetSymbol(name)]

\* Mutant: the reserved name is resolved as it is, without the indirection.
GetFunctionFaddrDirect(name) ==
  IF name = tvm_module_main /\ GetSymbol(tvm_module_main) = NULL
  THEN [fatal |-> TRUE, faddr |-> NULL]
  ELSE [fatal |-> FALSE, faddr |-> GetSymbol(name)]

\* Mutant: a second CHECK makes an entry name that is not exported fatal too.
GetFunctionFaddrStrict(name) ==
  IF name = tvm_module_main
  THEN LET entry_name == GetSymbol(tvm_module_main)
       IN IF entry_name = NULL \/ GetSymbol(StringAt(entry_name)) = NULL
          THEN [fatal |-> TRUE, faddr |-> NULL]
          ELSE [fatal |-> FALSE, faddr |-> GetSymbol(StringAt(entry_name))]
  ELSE [fatal |-> FALSE, faddr |-> GetSymbol(name)]

\* GetFunction, up to the address: the reserved name goes through the entry
\* indirection, whose absence is a failed CHECK; any other name is resolved
\* as it is.
GetFunctionFaddr(name) ==
  IF name = tvm_module_main
  THEN LET entry_name == GetSymbol(tvm_module_main)
       IN IF entry_name = NULL
          THEN [fatal |-> TRUE, faddr |-> NULL]
          ELSE [fatal |-> FALSE, faddr |-> GetSymbol(StringAt(entry_name))]
  ELSE [fatal |-> FALSE, faddr |-> GetSymbol(name)]

\* Mutant: the address is wrapped without sptr_to_self.
GetFunctionReturnNoOwner(addr) ==
  IF addr = NULL
  THEN [kind |-> "empty", faddr |-> NULL, owner |-> NoOwner]
  ELSE [kind |-> "pf", faddr |-> addr, owner |-> NoOwner]

\* Mutant: the test for nullptr is missing, so a null address is wrapped too.
GetFunctionReturnUnchecked(addr) ==
  [kind |-> "pf", faddr |-> addr, owner |-> Self]

\* Mutant: the empty callable returned for nullptr still captures sptr_to_self.
GetFunctionReturnLeaks(addr) ==
  IF addr = NULL
  THEN [kind |-> "empty", faddr |-> NULL, owner |-> Self]
  ELSE [kind |-> "pf", faddr |-> addr, owner |-> Self]

\* GetFunction, from the address on: an empty PackedFunc for nullptr, else
\* the address wrapped together with sptr_to_self.
GetFunctionReturn(addr) ==
  IF addr = NULL
  THEN [kind |-> "empty", faddr |-> NULL, owner |-> NoOwner]
  ELSE [kind |-> "pf", faddr |-> addr, owner |-> Self]

\* Mutant: faddr is one static shared by every call.
FaddrSlotShared(t) == 1

\* faddr is a local of GetFunction: every call in progress has its own.
FaddrSlot(t) == t

\* The generic module's search of the nested modules, in imports_ order: the
\* first nested module that defines the name wraps it, owning itself.
RECURSIVE QueryImports(_, _, _)
QueryImports(name, imports, i) ==
  IF i > Len(imports) THEN [kind |-> "empty", faddr |-> NULL, owner |-> NoOwner]
  ELSE IF name \in NestedDefs(imports[i])
       THEN [kind |-> "pf", faddr |-> NestedAddr(imports[i], name), owner |-> Import(i)]
       ELSE QueryImports(name, imports, i + 1)

\* Taking and dropping the reference a value holds on its owner.
Acquire(w, owner) ==
  IF owner = NoOwner THEN w
  ELSE IF owner = Self THEN IncRef(w)
  ELSE NestedIncRef(w, owner[2])

Drop(w, owner) ==
  IF owner = NoOwner THEN w
  ELSE IF owner = Self THEN DecRef(w)
  ELSE NestedDecRef(w, owner[2])

Tag(r, name, qi) ==
  [kind |-> r.kind, faddr |-> r.faddr, owner |-> r.owner, name |-> name, qi |-> qi]

Fatal == [kind |-> "fatal", faddr |-> NULL, owner |-> NoOwner]

\* A holder calls GetFunction(name, query_imports): the first half resolves
\* the address into faddr, or throws.
BeginLookup(t, name, qi) ==
  /\ mod[t] /\ lk[t] = NoLookup /\ res[t] = NoRes
  /\ LET a == GetFunctionFaddr(name)
     IN IF a.fatal
        THEN /\ res' = [res EXCEPT ![t] = Tag(Fatal, name, qi)]
             /\ UNCHANGED <<lk, faddr>>
        ELSE /\ lk' = [lk EXCEPT ![t] = [stage |-> "resolved", name |-> name, qi |-> qi]]
             /\ faddr' = [faddr EXCEPT ![FaddrSlot(t)] = a.faddr]
             /\ UNCHANGED res
  /\ UNCHANGED <<artifact, fpc, node, nested_ref, dl, ctx_slot, resolver, mod, last_call>>

\* The second half wraps the address (taking a reference to the owner) or
\* returns empty; with query_imports the caller then searches imports_.
FinishLookup(t) ==
  /\ lk[t] # NoLookup
  /\ LET own == GetFunctionReturn(faddr[FaddrSlot(t)])
         r == IF own.kind = "empty" /\ lk[t].qi
              THEN QueryImports(lk[t].name, node.imports_, 1)
              ELSE own
     IN /\ res' = [res EXCEPT ![t] = Tag(r, lk[t].name, lk[t].qi)]
        /\ SetWorld(Acquire(World, r.owner))
  /\ lk' = [lk EXCEPT ![t] = NoLookup]
  /\ faddr' = [faddr EXCEPT ![FaddrSlot(t)] = NULL]
  /\ UNCHANGED <<artifact, fpc, ctx_slot, resolver, mod, last_call>>

\* A holder takes a reference to the i-th nested module of the module.
GetImport(t, i) ==
  /\ mod[t] /\ lk[t] = NoLookup /\ res[t] = NoRes
  /\ i \in 1..Len(node.imports_)
  /\ res' = [res EXCEPT ![t] =
               Tag([kind |-> "module", faddr |-> NULL, owner |-> Import(i)], "", FALSE)]
  /\ SetWorld(Acquire(World, Import(i)))
  /\ UNCHANGED <<artifact, fpc, ctx_slot, resolver, mod, lk, faddr, last_call>>

\* Whether an address points into the library of the artifact.
InLibrary(addr) == addr # NULL /\ addr[1] = "lib"

\* Whether the code at an address can still be run: the library is mapped,
\* or the nested module that defines it is alive.
Runnable(r) ==
  IF r.faddr = NULL THEN FALSE
  ELSE IF InLibrary(r.faddr) THEN dl.open
  ELSE nested_ref[r.owner[2]] > 0

\* A holder invokes the callable it holds.
Invoke(t) ==
  /\ res[t].kind = "pf"
  /\ last_call' = [outcome |-> IF Runnable(res[t]) THEN "ok" ELSE "crash",
                   alone |-> \A u \in Threads : ~mod[u],
                   faddr |-> res[t].faddr]
  /\ UNCHANGED <<artifact, fpc, node, nested_ref, dl, ctx_slot, resolver, mod, lk, faddr, res>>

\* A holder drops what its last call returned.
ReleaseResult(t) ==
  /\ res[t] # NoRes
  /\ res' = [res EXCEPT ![t] = NoRes]
  /\ SetWorld(Drop(World, res[t].owner))
  /\ UNCHANGED <<artifact, fpc, ctx_slot, resolver, mod, lk, faddr, last_call>>

\* A holder hands a copy of its Module reference to another thread.
CopyModule(t, u) ==
  /\ mod[t] /\ ~mod[u]
  /\ mod' = [mod EXCEPT ![u] = TRUE]
  /\ SetWorld(IncRef(World))
  /\ UNCHANGED <<artifact, fpc, ctx_slot, resolver, lk, faddr, res, last_call>>

\* A holder drops its Module reference (not in the middle of its own call).
ReleaseModule(t) ==
  /\ mod[t] /\ lk[t] = NoLookup
  /\ mod' = [mod EXCEPT ![t] = FALSE]
  /\ SetWorld(DecRef(World))
  /\ UNCHANGED <<artifact, fpc, ctx_slot, resolver, lk, faddr, res, last_call>>

\* ---------------------------------------------------------- specifications
Factory ==
  \/ MakeObject
  \/ Load
  \/ InjectContext
  \/ InitContextFunctions
  \/ LoadImports
  \/ Return

Use(t) ==
  \/ \E name \in LookupNames, qi \in BOOLEAN : BeginLookup(t, name, qi)
  \/ FinishLookup(t)
  \/ \E i \in 1..MaxBlobLen : GetImport(t, i)
  \/ Invoke(t)
  \/ ReleaseResult(t)
  \/ ReleaseModule(t)

Next ==
  \/ Factory
  \/ \E t \in Threads : Use(t)
  \/ \E t, u \in Threads : CopyModule(t, u)

\* Any number of holders on a sample of artifacts.
Init == InitOn(SampleArtifacts)

Spec == Init /\ [][Next]_vars

\* One holder on every artifact.
InitSeq == InitOn(Artifacts)

NextSeq ==
  \/ Factory
  \/ Use(1)

SpecSeq == InitSeq /\ [][NextSeq]_vars

\* ------------------------------------------------------------------ claims
\* What a lookup can leave in res[t].
Outcomes == {"fatal", "empty", "pf"}

\* Thread t holds a callable wrapping an address of the library.
HoldsLibraryCallable(t) == res[t].kind = "pf" /\ InLibrary(res[t].faddr)

\* Nothing refers to the node any more: no Module, no call in progress, no
\* callable of the library.
NobodyHolds ==
  \A t \in Threads : ~mod[t] /\ lk[t] = NoLookup /\ ~HoldsLibraryCallable(t)

\* C1: Unload has been invoked exactly once when the node of a library that
\* was opened has been destroyed, and never otherwise (not before
\* destruction, not for a library that could not be opened); and once the
\* factory has returned the module and the last holder is released, the node
\* is destroyed.
C1_UnloadOnceAtDestruction ==
  /\ dl.unloads = (IF artifact.openable /\ node.state = "destroyed" THEN 1 ELSE 0)
  /\ (fpc = "returned" /\ NobodyHolds) => node.state = "destroyed"

C1_Witness ==
  /\ fpc = "returned" /\ NobodyHolds
  /\ node.state = "destroyed" /\ dl.unloads = 1
  /\ last_call.outcome = "ok" /\ InLibrary(last_call.faddr)

\* C2: while a callable wrapping an address of the library is held, the
\* library is loaded and the node alive, whoever else has released the
\* module; and no invocation of a callable ever found its code gone.
C2_CallableKeepsLibraryLoaded ==
  /\ \A t \in Threads :
       HoldsLibraryCallable(t) => dl.open /\ dl.unloads = 0 /\ node.state = "live"
  /\ last_call.outcome # "crash"

C2_Witness ==
  /\ \A u \in Threads : ~mod[u]
  /\ \E t \in Threads : HoldsLibraryCallable(t) /\ last_call.faddr = res[t].faddr
  /\ last_call.outcome = "ok" /\ last_call.alone

\* C3 as stated: the library is never unloaded while a holder still holds a
\* reference to one of the module's nested modules, directly or through a
\* callable.
C3_UnloadAfterNestedReleased ==
  dl.unloads > 0 => \A t \in Threads : res[t].owner = NoOwner

\* C3, amended: the library is unloaded only after every Module reference to
\* the node, every call in progress and every callable of the library is
\* gone; a nested module that is still held stays alive past the unload.
C3_UnloadAfterOwnReleased ==
  /\ dl.unloads > 0 => NobodyHolds
  /\ \A t \in Threads :
       (res[t].kind \in {"pf", "module"} /\ res[t].owner \notin {Self, NoOwner})
         => nested_ref[res[t].owner[2]] > 0

C3_Witness ==
  /\ dl.unloads = 1 /\ fpc = "returned"
  /\ \E t \in Threads : res[t].kind = "module"

\* C4 as stated: a lookup on the node of any name the artifact does not
\* export returns an empty callable.
C4_AbsentNameIsEmpty ==
  \A t \in Threads :
    (res[t].kind \in Outcomes /\ ~res[t].qi /\ res[t].name \notin artifact.exports)
      => res[t].kind = "empty"

\* C4, amended: a lookup on the node of any name other than the reserved
\* main-entry name that the artifact does not export returns an empty
\* callable.
C4_AbsentOrdinaryNameIsEmpty ==
  \A t \in Threads :
    (/\ res[t].kind \in Outcomes /\ ~res[t].qi
     /\ res[t].name # tvm_module_main
     /\ res[t].name \notin artifact.exports)
      => res[t].kind = "empty"

C4_Witness ==
  \E t \in Threads :
    /\ res[t].kind = "empty" /\ ~res[t].qi /\ res[t].name = "g"
    /\ "g" \notin artifact.exports
    /\ node.imports_ # <<>> /\ "g" \in NestedDefs(node.imports_[1])

\* C5: a lookup of the reserved main-entry name on the node fails fatally
\* when the entry-indirection symbol is not exported, and returns an empty
\* callable when it is exported but the name it holds is not.
C5_MainEntryFatalOrEmpty ==
  \A t \in Threads :
    (res[t].kind \in Outcomes /\ ~res[t].qi /\ res[t].name = tvm_module_main)
      => /\ tvm_module_main \notin artifact.exports => res[t].kind = "fatal"
         /\ (tvm_module_main \in artifact.exports /\ artifact.entry \notin artifact.exports)
              => res[t].kind = "empty"

C5_Witness ==
  \E t \in Threads :
    /\ res[t].kind = "empty" /\ ~res[t].qi /\ res[t].name = tvm_module_main
    /\ tvm_module_main \in artifact.exports /\ artifact.entry \notin artifact.exports

\* C6: when the entry indirection holds a name N that is exported, a lookup
\* of the reserved main-entry name returns a callable of N's address owned
\* by the node, the same address and owner as any held result of looking N
\* up directly.
C6_MainEntryEqualsDirect ==
  \A t \in Threads :
    (/\ res[t].kind \in Outcomes /\ res[t].name = tvm_module_main
     /\ tvm_module_main \in artifact.exports
     /\ artifact.entry \in artifact.exports)
      => /\ res[t].kind = "pf"
         /\ res[t].faddr = Addr(artifact.entry)
         /\ res[t].owner = Self
         /\ \A u \in Threads :
              (res[u].kind \in Outcomes /\ res[u].name = artifact.entry)
                => /\ res[u].kind = res[t].kind
                   /\ res[u].faddr = res[t].faddr
                   /\ res[u].owner = res[t].owner

C6_Witness ==
  \E t, u \in Threads :
    /\ res[t].kind = "pf" /\ res[t].name = tvm_module_main
    /\ res[u].kind = "pf" /\ res[u].name = artifact.entry

\* C7: for a path that cannot be opened the factory never gets past Load:
\* no Module reaches a caller, the handle stays null, the context slot is
\* not written, no resolver is registered, nothing is imported, and Unload
\* is never invoked.
C7_UnopenableFailsAtLoad ==
  ~artifact.openable =>
    /\ fpc \in {"start", "made", "failed"}
    /\ \A t \in Threads : ~mod[t]
    /\ node.lib_handle_ = NULL
    /\ ctx_slot = NULL /\ ~resolver
    /\ node.imports_ = <<>> /\ nested_ref = <<>>
    /\ ~dl.open /\ dl.unloads = 0

C7_Witness ==
  /\ ~artifact.openable /\ fpc = "failed"
  /\ node.state = "destroyed"

\* C8: when the blob encodes the nested modules descs, then from the end of
\* construction on, as long as the node lives, imports_ is exactly descs, one
\* object each; in particular [A, B] for the blob of A then B.
C8_ImportsInBlobOrder ==
  \A descs \in SeqsUpTo(KnownKinds, MaxBlobLen - 1) :
    (/\ artifact.blob = EncodeBlob(descs)
     /\ fpc \in {"imported", "returned"} /\ node.state = "live")
      => node.imports_ = descs /\ Len(nested_ref) = Len(descs)

C8_Witness ==
  /\ artifact.blob = EncodeBlob(<<KindA, KindB>>)
  /\ fpc = "returned" /\ node.state = "live"
  /\ node.imports_ = <<KindA, KindB>>
  /\ last_call.outcome = "ok" /\ res[1].kind = "empty"

\* C9: on a module whose nested modules are [A, B], a lookup with the search
\* of imports of a name that A and B both define and the artifact does not
\* export returns a callable of A's definition, owned by A.
C9_FirstImportWins ==
  \A t \in Threads :
    (/\ res[t].kind \in Outcomes /\ res[t].qi
     /\ node.imports_ = <<KindA, KindB>>
     /\ res[t].name \in NestedDefs(KindA) \cap NestedDefs(KindB)
     /\ res[t].name \notin artifact.exports)
      => /\ res[t].kind = "pf"
         /\ res[t].faddr = NestedAddr(KindA, res[t].name)
         /\ res[t].owner = Import(1)

C9_Witness ==
  \E t \in Threads :
    /\ res[t].kind = "pf" /\ res[t].qi /\ res[t].name = "g"
    /\ node.imports_ = <<KindA, KindB>>
    /\ res[t].faddr = NestedAddr(KindA, "g")

\* What a whole lookup returns when nothing else runs between its halves.
LookupAlone(name, qi) ==
  LET a == GetFunctionFaddr(name)
      own == GetFunctionReturn(a.faddr)
  IN IF a.fatal THEN Tag(Fatal, name, qi)
     ELSE IF own.kind = "empty" /\ qi
          THEN Tag(QueryImports(name, node.imports_, 1), name, qi)
          ELSE Tag(own, name, qi)

C10_State ==
  fpc = "returned" =>
    /\ dl.unloads <= 1
    /\ ~NobodyHolds => dl.open /\ dl.unloads = 0
    /\ \A t \in Threads :
         res[t].kind \in Outcomes => res[t] = LookupAlone(res[t].name, res[t].qi)

C10_Step ==
  fpc = "returned" =>
    /\ node.lib_handle_' = node.lib_handle_
    /\ node.imports_' = node.imports_

\* C10: once the module is returned, whatever the interleaving of the halves
\* of the holders' lookups, no step changes lib_handle_ or imports_, the
\* library is not unloaded while anything holds the node and never twice, and
\* every lookup's result is the one the same lookup returns run alone.
C10_ConcurrentLookups == []C10_State /\ [][C10_Step]_vars

C10_Witness ==
  \E t, u \in Threads :
    /\ t # u
    /\ lk[t] # NoLookup /\ lk[u] # NoLookup
    /\ faddr[FaddrSlot(t)] # faddr[FaddrSlot(u)]

\* C11 as stated: once the factory has returned the module, no lookup on it
\* fails fatally.
C11_NoFatalAfterConstruction ==
  fpc = "returned" => \A t \in Threads : res[t].kind # "fatal"

\* C11, amended: construction fails fatally only for a library that cannot
\* be opened or a malformed blob, and then no module reaches a caller; once
\* the module is returned the only fatal failure is a lookup of the reserved
\* main-entry name on an artifact without the entry-indirection symbol, and
\* no invocation finds its code gone.
C11_FatalOnlyAtConstructionOrMainEntry ==
  /\ \A t \in Threads :
       res[t].kind = "fatal"
         => /\ fpc = "returned"
            /\ res[t].name = tvm_module_main
            /\ tvm_module_main \notin artifact.exports
  /\ fpc = "failed"
       => /\ \/ ~artifact.openable
             \/ /\ tvm_dev_mblob \in artifact.exports
                /\ ~ImportModuleBlob(artifact.blob, <<>>).ok
          /\ \A t \in Threads : ~mod[t] /\ res[t] = NoRes /\ lk[t] = NoLookup
  /\ last_call.outcome # "crash"

C11_Witness ==
  /\ fpc = "returned" /\ node.state = "live"
  /\ \E t \in Threads : res[t].kind = "fatal" /\ mod[t]

\* The handle is null until Load, and the one dlopen returned from then on
\* for as long as the node lives, with the library open.
C12_State ==
  /\ fpc \in {"start", "made"} => node.lib_handle_ = NULL
  /\ (fpc \in {"loaded", "ctx", "resolver", "imported", "returned"} /\ node.state = "live")
       => node.lib_handle_ = LibHandle /\ dl.open

\* Once set, the handle is not assigned again.
C12_Step == node.lib_handle_ # NULL => node.lib_handle_' = node.lib_handle_

\* C12: lib_handle_ is null before Load, non-null in every state from the
\* success of Load until the node is destroyed, whatever lookups, copies and
\* releases happen, and is never reassigned once set.
C12_HandleStable == []C12_State /\ [][C12_Step]_vars

C12_Witness ==
  /\ fpc = "returned" /\ node.state = "live" /\ node.lib_handle_ = LibHandle
  /\ \A u \in Threads : ~mod[u]
  /\ \E t \in Threads : HoldsLibraryCallable(t)
  /\ last_call.outcome = "ok"

\* The blob is there and ImportModuleBlob fails on it.
BlobMalformed ==
  tvm_dev_mblob \in artifact.exports /\ ~ImportModuleBlob(artifact.blob, <<>>).ok

\* Each stage of the lifecycle has the earlier ones behind it.
C13_State ==
  /\ (ctx_slot # NULL \/ resolver) => node.lib_handle_ # NULL
  /\ resolver => fpc \notin {"start", "made", "loaded"}
  /\ node.imports_ # <<>>
       => /\ resolver
          /\ tvm_module_ctx \in artifact.exports => ctx_slot = This
  /\ fpc \in {"imported", "returned"} => resolver
  /\ \A t \in Threads :
       (mod[t] \/ lk[t] # NoLookup \/ res[t] # NoRes)
         => fpc = "returned" /\ node.lib_handle_ # NULL
  /\ \A t \in Threads : lk[t] # NoLookup => dl.open /\ dl.unloads = 0

\* After the unload no lookup starts or returns.
C13_Step ==
  dl.unloads > 0 =>
    \A t \in Threads :
      /\ lk'[t] = NoLookup
      /\ res'[t].kind \in Outcomes => res'[t] = res[t]

\* C13: the library is loaded before the context slot is written and the
\* resolver registered, both happen before the nested modules are attached,
\* and the module reaches a caller only after that; nothing is looked up
\* before Load succeeded, and no lookup starts or returns after the unload.
C13_LifecycleOrder == []C13_State /\ [][C13_Step]_vars

C13_Witness ==
  /\ fpc = "returned" /\ dl.unloads = 1
  /\ ctx_slot = This /\ resolver /\ node.imports_ # <<>>
  /\ \E t \in Threads : res[t].kind = "pf" /\ ~InLibrary(res[t].faddr)
  /\ InLibrary(last_call.faddr)

\* C14: when construction fails, no module reaches a caller, the node is
\* destroyed with the nested modules attached so far released, and the
\* library is closed: unloaded exactly once if it had been opened (the blob
\* was malformed), and not at all if it had not.
C14_FailedConstructionReleases ==
  fpc = "failed" =>
    /\ node.state = "destroyed" /\ node.ref_counter_ = 0
    /\ \A t \in Threads : ~mod[t]
    /\ \A i \in DOMAIN nested_ref : nested_ref[i] = 0
    /\ ~dl.open
    /\ dl.unloads = (IF artifact.openable THEN 1 ELSE 0)
    /\ artifact.openable => BlobMalformed

C14_Witness ==
  /\ fpc = "failed" /\ artifact.openable /\ BlobMalformed
  /\ dl.unloads = 1 /\ node.imports_ # <<>>

\* C15: from the context-injection step on, the context slot holds the node
\* exactly when the artifact exports the slot, so it is written before the
\* nested modules are attached; the resolver is registered in both cases;
\* and a missing slot never makes construction fail.
C15_ContextInjection ==
  /\ fpc \in {"ctx", "resolver", "imported", "returned"}
       => ctx_slot = (IF tvm_module_ctx \in artifact.exports THEN This ELSE NULL)
  /\ fpc \in {"resolver", "imported", "returned"} => resolver
  /\ (node.imports_ # <<>> /\ tvm_module_ctx \in artifact.exports) => ctx_slot = This
  /\ fpc = "failed" => (~artifact.openable \/ BlobMalformed)

C15_Witness ==
  /\ fpc = "returned" /\ node.imports_ # <<>>
  /\ tvm_module_ctx \notin artifact.exports
  /\ ctx_slot = NULL /\ resolver

\* C16: every callable of the library holds its own reference to the node
\* (the count is the Modules held plus the callables held, nothing kept by
\* the node itself); callables of the same name share their address; the
\* library stays loaded while any one of them is held; and the node is
\* destroyed once the last Module and callable are released.
C16_FreshCallables ==
  /\ (fpc = "returned" /\ node.state = "live")
       => node.ref_counter_ = Cardinality({t \in Threads : mod[t]})
                              + Cardinality({t \in Threads : HoldsLibraryCallable(t)})
  /\ \A t, u \in Threads :
       (res[t].kind = "pf" /\ res[u].kind = "pf" /\ res[t].name = res[u].name)
         => res[t].faddr = res[u].faddr
  /\ \A t \in Threads : HoldsLibraryCallable(t) => dl.open /\ node.state = "live"
  /\ (fpc = "returned" /\ NobodyHolds) => node.state = "destroyed"

C16_Witness ==
  \E t, u \in Threads :
    /\ t # u
    /\ HoldsLibraryCallable(t) /\ HoldsLibraryCallable(u)
    /\ res[t].name = res[u].name
    /\ \A v \in Threads : ~mod[v]
    /\ node.ref_counter_ = 2 /\ dl.open

\* A failed result owns nothing, and an exported function is always found.
C17_State ==
  \A t \in Threads :
    /\ res[t].kind \in {"fatal", "empty"} => res[t].owner = NoOwner
    /\ (res[t].kind \in Outcomes /\ res[t].name \in FuncNames \cap artifact.exports)
         => res[t].kind = "pf" /\ res[t].faddr = Addr(res[t].name)

\* The step that starts a lookup, and the step that ends one in failure,
\* leave the node, the nested modules and the loader as they were.
C17_Step ==
  \A t \in Threads :
    (\/ lk[t] = NoLookup /\ lk'[t] # NoLookup
     \/ res[t] = NoRes /\ res'[t].kind \in {"fatal", "empty"})
      => node' = node /\ nested_ref' = nested_ref /\ dl' = dl

\* C17: a lookup that fails, fatally or with an empty callable, changes
\* neither lib_handle_, imports_ nor any reference count and its result owns
\* no reference; lookups of exported functions return non-empty callables
\* whatever failed before.
C17_FailedLookupChangesNothing == []C17_State /\ [][C17_Step]_vars

C17_Witness ==
  \E t, u \in Threads :
    /\ res[t].kind = "fatal" /\ mod[t]
    /\ HoldsLibraryCallable(u)
    /\ node.ref_counter_ = Cardinality({v \in Threads : mod[v]}) + 1

====
